---- MODULE Spec2Model ----
(***************************************************************************)
(* Model of the storage environment of holochain_sqlite (env.rs): the      *)
(* process-wide set INITIALIZED_DBS, DbConnection::new / clone / remove,   *)
(* and the transactions handed out by ReadManager and WriteManager; and of  *)
(* the Cell of holochain (conductor/cell.rs): Cell::create, equality and   *)
(* hashing of Cells, and Cell::invoke_zome over the workflow runner; of the *)
(* test conductor CoolConductor (cool_conductor.rs); and of the serde       *)
(* implementation of KitsuneP2pTuningParams (kitsune_p2p config.rs).        *)
(***************************************************************************)
EXTENDS Integers, FiniteSets, Sequences, TLC

\* ---------------------------------------------------------------- bounds
\* number of DbConnection values that may be alive at the same time
MaxEnvs == 2
\* cap of the per-path count of initialize_databases() runs
MaxInit == 2

\* number of Cell values that may be alive at the same time
MaxCells == 2
\* number of zome invocations that are made
MaxInv == 2
\* number of entries one invocation may stage in its bundle
MaxBundle == 2
MaxCool == 2
MaxConds == 2
MaxEntries == 2

Slots == 1..MaxEnvs
CellSlots == 1..MaxCells
InvIds == 1..MaxInv

\* the rows a closure may write
Entries == {"a", "b"}

\* the storage paths used: path_prefix.join(kind.path()) for two kinds
Paths == {"conductor", "wasm"}
NoPath == "none"

\* values a closure may return: Ok(r) and Err(e)
RVals == {"r1", "r2"}
EVals == {"e1", "e2"}

VARIABLES
  INITIALIZED_DBS,  \* the process-wide set of paths
  dirs,             \* paths whose directory exists on disk
  disk,             \* disk[p]: the committed rows of the database at p
  initRuns,         \* initRuns[p]: runs of initialize_databases() on p's directory
  envs,             \* envs[i]: the DbConnection in slot i, or NoEnv
  txn,              \* txn[i]: the transaction open on connection i
  call,             \* call[i]: position of the call running on connection i
  registryLock,     \* registryLock[t]: the guard thread t holds on INITIALIZED_DBS
  tmpdir,           \* tmpdir[i]: slot i is the env of a TestEnvironment holding its TempDir
  cells,            \* cells[n]: the Cell in slot n, or NoCell
  chain,            \* chain[e]: the source chain persisted in environment e
  inv,              \* inv[k]: the invocation k of invoke_zome
  cool,             \* cool[c]: the CoolConductor value in slot c, or NoCool
  dnas,             \* dnas[d]: the Vec<DnaFile> behind the Arc<Mutex<..>> d
  conds,            \* conds[h]: the conductor behind the ConductorHandle h
  params,           \* the tuning parameters (de)serialized, and the result
  last              \* the step taken last and what it returned

envVars == <<INITIALIZED_DBS, dirs, disk, initRuns, envs, txn, call, registryLock,
            tmpdir>>
cellVars == <<cells, chain, inv>>
coolVars == <<cool, dnas, conds>>
vars == <<INITIALIZED_DBS, dirs, disk, initRuns, envs, txn, call, registryLock, tmpdir,
          cells, chain, inv, cool, dnas, conds, params, last>>

\* ------------------------------------------------------------- values
NoEnv == [path |-> NoPath, conn |-> 0, stale |-> FALSE]
NoTxn == [open |-> FALSE, snap |-> {}, writes |-> {}]
Idle == [op |-> "idle", pc |-> "idle", fres |-> "none"]

Event(op, i, p, tag, val, rows) ==
  [op |-> op, env |-> i, path |-> p, tag |-> tag, val |-> val, rows |-> rows]

Live(i) == envs[i] # NoEnv
FreeSlots == {i \in Slots : ~Live(i)}
\* the slot a newly constructed DbConnection is placed in
NewSlot == CHOOSE i \in FreeSlots : \A j \in FreeSlots : i <= j

KindPathP2pAsWasm(kind) ==
  CASE kind = "Conductor" -> "conductor"
    [] kind = "Wasm" -> "wasm"
    [] kind = "P2p" -> "wasm"
    [] OTHER -> kind

\* EnvironmentKind::path
KindPath(kind) ==
  CASE kind = "Conductor" -> "conductor"
    [] kind = "Wasm" -> "wasm"
    [] kind = "P2p" -> "p2p"
    [] OTHER -> kind

Kinds == {"Conductor", "Wasm"}

\* DbConnection::from_path_and_keystore: every call opens a connection of
\* its own (Connection::open), identified here by the slot it is stored in
from_path_and_keystore(path, i) == [path |-> path, conn |-> i, stale |-> FALSE]

DirReadyIgnoringError(exists, dirOk) == TRUE

\* DbConnection::new goes on past the directory check when the path exists
\* or create_dir has succeeded
DirReady(exists, dirOk) == exists \/ dirOk

RunsInitOnFirstOpen(added) == added

\* the condition under which DbConnection::new runs initialize_databases
RunsInit(added) == ~added

Cap(n) == IF n < MaxInit THEN n + 1 ELSE MaxInit

\* initialize_databases(): records one more initialization run for the path
initialize_databases(runs, p) == [runs EXCEPT ![p] = Cap(runs[p])]

\* ------------------------------------------------------ values of Cell
\* CellId values, conductor handles and storage roots (env_path)
CellIds == {"c1", "c2"}
Handles == {"h1", "h2"}
Roots == {"/r1", "/r2"}

\* EnvironmentKind::Cell(id.clone()), the kind Cell::create asks for
CellKindConductor(id) == [tag |-> "Conductor", id |-> "none"]

CellKind(id) == [tag |-> "Cell", id |-> id]

\* the environments Cells may be given: one for each root and CellId
ChainKeys == {[root |-> r, kind |-> CellKind(c)] : r \in Roots, c \in CellIds}

NoCell == [id |-> "none", conductor_api |-> "none", state_env |-> "none"]

\* an invocation: the Cell it runs on and its environment, the state of its
\* workflow, the head it captured, its bundle, the number of entries staged,
\* the error it was aborted with, whether it has opened a write
\* transaction, and what invoke_zome returned for it
NoInv == [cell |-> 0, env |-> [root |-> "none", kind |-> CellKind("none")], state |-> "None", head |-> <<>>,
          bundle |-> <<>>, staged |-> 0, err |-> "none", wtxn |-> FALSE,
          resp |-> "none", net |-> "none"]

\* CoolConductor values: slots hold the values (clones included), conductor
\* ids stand for the ConductorHandles ever built; handle 0 is None
CoolSlots == 1..MaxCool
CondIds == 1..MaxConds
Configs == {"cfgA", "cfgB"}
DnaFiles == {"d1", "d2"}
NoCool == [handle |-> 0, envs |-> 0, config |-> "none", dnas |-> 0]
NoCond == [state |-> "none", envs |-> 0, config |-> "none", installed |-> <<>>]
NoParams == [op |-> "none"]

\* the threads that open and remove environments, and the guard a thread
\* holds on the RwLock of INITIALIZED_DBS
Threads == {"t1", "t2"}
NoGuard == [mode |-> "none", op |-> "none", kind |-> "none", slot |-> 0,
            registered |-> FALSE]

Init ==
  /\ cool = [c \in CoolSlots |-> NoCool]
  /\ dnas = [d \in CoolSlots |-> <<>>]
  /\ conds = [h \in CondIds |-> NoCond]
  /\ params = NoParams
  /\ cells = [n \in CellSlots |-> NoCell]
  /\ chain = [e \in ChainKeys |-> <<>>]
  /\ inv = [k \in InvIds |-> NoInv]
  /\ INITIALIZED_DBS = {}
  /\ dirs = {}
  /\ disk = [p \in Paths |-> {}]
  /\ initRuns = [p \in Paths |-> 0]
  /\ envs = [i \in Slots |-> NoEnv]
  /\ txn = [i \in Slots |-> NoTxn]
  /\ call = [i \in Slots |-> Idle]
  /\ registryLock = [t \in Threads |-> NoGuard]
  /\ tmpdir = [i \in Slots |-> FALSE]
  /\ last = Event("init", 0, NoPath, "none", "none", {})

\* ------------------------------------------------- DbConnection::new
\* The whole function runs under INITIALIZED_DBS.write().
\* dirOk: create_dir succeeds; initOk: initialize_databases succeeds;
\* connOk: Connection::open succeeds (otherwise expect() panics).
New(kind, dirOk, initOk, connOk) ==
  LET path == KindPath(kind)
      added == path \notin INITIALIZED_DBS
  IN
  /\ FreeSlots # {}
  /\ UNCHANGED <<disk, txn, call>>
  /\ IF ~DirReady(path \in dirs, dirOk)
     THEN /\ last' = Event("new", 0, path, "Err", "EnvironmentMissing", {})
          /\ UNCHANGED <<INITIALIZED_DBS, dirs, initRuns, envs>>
     ELSE /\ dirs' = dirs \cup {path}
          /\ INITIALIZED_DBS' = INITIALIZED_DBS \cup {path}
          /\ IF RunsInit(added) /\ ~initOk
             THEN /\ last' = Event("new", 0, path, "Err", "DatabaseError", {})
                  /\ UNCHANGED <<initRuns, envs>>
             ELSE /\ initRuns' = IF RunsInit(added)
                                 THEN initialize_databases(initRuns, path)
                                 ELSE initRuns
                  /\ IF connOk
                     THEN /\ envs' = [envs EXCEPT ![NewSlot] =
                                        from_path_and_keystore(path, NewSlot)]
                          /\ last' = Event("new", NewSlot, path, "Ok",
                                           IF added THEN "added" ELSE "present", {})
                     ELSE /\ envs' = envs
                          /\ last' = Event("new", 0, path, "Panic", "none", {})

\* ------------------------------------------------ DbConnection::clone
Clone(i, connOk) ==
  /\ Live(i)
  /\ FreeSlots # {}
  /\ UNCHANGED <<INITIALIZED_DBS, dirs, disk, initRuns, txn, call>>
  /\ IF connOk
     THEN /\ envs' = [envs EXCEPT ![NewSlot] =
                        from_path_and_keystore(envs[i].path, NewSlot)]
          /\ last' = Event("clone", NewSlot, envs[i].path, "Ok", "none", {})
     ELSE /\ envs' = envs
          /\ last' = Event("clone", 0, envs[i].path, "Panic", "none", {})

\* ----------------------------------------------- DbConnection::remove
MapCleared(map, path) == {}

\* map.remove(&self.path)
MapAfterRemove(map, path) == map \ {path}

\* Takes self by value, so no call is running on this connection.
\* rmOk: remove_dir_all succeeds, which it cannot do on a missing directory.
\* The connections still open on the deleted database are stale from then on.
Remove(i, rmOk) ==
  LET path == envs[i].path IN
  /\ Live(i)
  /\ call[i] = Idle
  /\ rmOk => path \in dirs
  /\ INITIALIZED_DBS' = MapAfterRemove(INITIALIZED_DBS, path)
  /\ UNCHANGED <<txn, call>>
  /\ IF rmOk
     THEN /\ envs' = [j \in Slots |->
                        IF j = i THEN NoEnv
                        ELSE IF envs[j].path = path
                             THEN [envs[j] EXCEPT !.stale = TRUE]
                             ELSE envs[j]]
          /\ dirs' = dirs \ {path}
          /\ disk' = [disk EXCEPT ![path] = {}]
          /\ initRuns' = [initRuns EXCEPT ![path] = 0]
          /\ last' = Event("remove", i, path, "Ok", "none", {})
     ELSE /\ envs' = [envs EXCEPT ![i] = NoEnv]
          /\ UNCHANGED <<dirs, disk, initRuns>>
          /\ last' = Event("remove", i, path, "Err", "DatabaseError", {})

\* a DbConnection going out of scope closes its connection
Drop(i) ==
  /\ Live(i)
  /\ call[i] = Idle
  /\ envs' = [envs EXCEPT ![i] = NoEnv]
  /\ last' = Event("drop", i, envs[i].path, "none", "none", {})
  /\ UNCHANGED <<INITIALIZED_DBS, dirs, disk, initRuns, txn, call>>

\* ------------------------------------------------------ transactions
TxnViewLive(i) == disk[envs[i].path] \cup txn[i].writes

\* what the transaction on connection i reads: its snapshot and its own writes
TxnView(i) == txn[i].snap \cup txn[i].writes

\* Connection::transaction(): a transaction on the committed rows
Begin(rows) == [open |-> TRUE, snap |-> rows, writes |-> {}]

CommittedNothing(rows, t) == rows

CommittedFirstRow(rows, t) == rows \cup (t.writes \cap {"a"})

\* Transaction::commit(): the rows on disk after the commit
Committed(rows, t) == rows \cup t.writes

\* dropping a Transaction rolls it back
Rollback(t) == NoTxn

\* Ok(result): the value with_commit returns once the commit has succeeded
CommitResult(fres) == fres

ErrMasked(e) == "DatabaseError"

\* f(&mut txn)?: the error of the closure as with_commit returns it
ErrResult(e) == e

\* WriteManager::with_commit, line 275: let mut txn = self.txn()?
\* txnOk: Connection::transaction succeeds, which it cannot do once the
\* database has been deleted under the connection
WithCommitBegin(i, txnOk) ==
  /\ Live(i)
  /\ call[i] = Idle
  /\ txnOk => ~envs[i].stale
  /\ UNCHANGED <<INITIALIZED_DBS, dirs, disk, initRuns, envs>>
  /\ IF txnOk
     THEN /\ txn' = [txn EXCEPT ![i] = Begin(disk[envs[i].path])]
          /\ call' = [call EXCEPT ![i] = [op |-> "with_commit", pc |-> "f", fres |-> "none"]]
          /\ last' = Event("txn", i, envs[i].path, "Ok", "none", {})
     ELSE /\ UNCHANGED <<txn, call>>
          /\ last' = Event("with_commit", i, envs[i].path, "Err", "DatabaseError", {})

\* the closure writes a row through the transaction it was given
TxnPut(i, x) ==
  /\ call[i].pc = "f"
  /\ x \notin TxnView(i)
  /\ txn' = [txn EXCEPT ![i].writes = @ \cup {x}]
  /\ last' = Event("put", i, envs[i].path, "Ok", "none", {x})
  /\ UNCHANGED <<INITIALIZED_DBS, dirs, disk, initRuns, envs, call>>

\* the closure reads through the transaction it was given
TxnRead(i) ==
  /\ call[i].pc = "f"
  /\ last' = Event("read", i, envs[i].path, "Ok", "none", TxnView(i))
  /\ UNCHANGED <<INITIALIZED_DBS, dirs, disk, initRuns, envs, txn, call>>

\* with_commit, line 276: f(&mut txn)? where f returns Ok(r)
FOk(i, r) ==
  /\ call[i].op = "with_commit"
  /\ call[i].pc = "f"
  /\ call' = [call EXCEPT ![i] = [op |-> "with_commit", pc |-> "commit", fres |-> r]]
  /\ last' = Event("f", i, envs[i].path, "Ok", r, {})
  /\ UNCHANGED <<INITIALIZED_DBS, dirs, disk, initRuns, envs, txn>>

\* with_commit, line 276: f(&mut txn)? where f returns Err(e): the error is
\* returned and txn, with the rows written through it, is dropped
FErr(i, e) ==
  /\ call[i].op = "with_commit"
  /\ call[i].pc = "f"
  /\ txn' = [txn EXCEPT ![i] = Rollback(@)]
  /\ call' = [call EXCEPT ![i] = Idle]
  /\ last' = Event("with_commit", i, envs[i].path, "Err", ErrResult(e), txn[i].writes)
  /\ UNCHANGED <<INITIALIZED_DBS, dirs, disk, initRuns, envs>>

\* with_commit, lines 277-278: txn.commit()?; Ok(result)
Commit(i, commitOk) ==
  LET path == envs[i].path IN
  /\ call[i].pc = "commit"
  /\ commitOk => ~envs[i].stale
  /\ call' = [call EXCEPT ![i] = Idle]
  /\ txn' = [txn EXCEPT ![i] = NoTxn]
  /\ UNCHANGED <<INITIALIZED_DBS, dirs, initRuns, envs>>
  /\ IF commitOk
     THEN /\ disk' = [disk EXCEPT ![path] = Committed(@, txn[i])]
          /\ last' = Event("with_commit", i, path, "Ok", CommitResult(call[i].fres), {})
     ELSE /\ disk' = disk
          /\ last' = Event("with_commit", i, path, "Err", "DatabaseError", {})

\* with_commit run from its first line to its last with no other step in
\* between: the closure writes `rows` and returns Ok(r)
WithCommit(i, rows, r, ok) ==
  LET path == envs[i].path IN
  /\ Live(i)
  /\ call[i] = Idle
  /\ ok => ~envs[i].stale
  /\ UNCHANGED <<INITIALIZED_DBS, dirs, initRuns, envs, txn, call>>
  /\ IF ok
     THEN /\ disk' = [disk EXCEPT ![path] =
                        Committed(@, [Begin(@) EXCEPT !.writes = rows])]
          /\ last' = Event("with_commit", i, path, "Ok", CommitResult(r), {})
     ELSE /\ disk' = disk
          /\ last' = Event("with_commit", i, path, "Err", "DatabaseError", {})

\* ReadManager::with_reader, line 265: self.reader()?
WithReaderBegin(i, txnOk) ==
  /\ Live(i)
  /\ call[i] = Idle
  /\ txnOk => ~envs[i].stale
  /\ UNCHANGED <<INITIALIZED_DBS, dirs, disk, initRuns, envs>>
  /\ IF txnOk
     THEN /\ txn' = [txn EXCEPT ![i] = Begin(disk[envs[i].path])]
          /\ call' = [call EXCEPT ![i] = [op |-> "with_reader", pc |-> "f", fres |-> "none"]]
          /\ last' = Event("reader", i, envs[i].path, "Ok", "none", {})
     ELSE /\ UNCHANGED <<txn, call>>
          /\ last' = Event("with_reader", i, envs[i].path, "Err", "DatabaseError", {})

\* with_reader, line 265: f returns; the transaction it was given is dropped
ReaderReturn(i, tag, v) ==
  /\ call[i].op = "with_reader"
  /\ call[i].pc = "f"
  /\ txn' = [txn EXCEPT ![i] = Rollback(@)]
  /\ call' = [call EXCEPT ![i] = Idle]
  /\ last' = Event("with_reader", i, envs[i].path, tag, v, {})
  /\ UNCHANGED <<INITIALIZED_DBS, dirs, disk, initRuns, envs>>

\* ----------------------------------------------------- specifications
\* the registry: environments of two kinds are opened, cloned, written,
\* removed and dropped
Next ==
  /\ UNCHANGED <<cellVars, coolVars, params, registryLock, tmpdir>>
  /\ \/ \E k \in Kinds, dirOk, initOk, connOk \in BOOLEAN : New(k, dirOk, initOk, connOk)
     \/ \E i \in Slots, connOk \in BOOLEAN : Clone(i, connOk)
     \/ \E i \in Slots, rmOk \in BOOLEAN : Remove(i, rmOk)
     \/ \E i \in Slots : Drop(i)
     \/ \E i \in Slots, ok \in BOOLEAN : WithCommit(i, Entries, "r1", ok)

Spec == Init /\ [][Next]_vars

\* the transactions of the environments opened on one path, step by step
NextTxn ==
  /\ UNCHANGED <<cellVars, coolVars, params, registryLock, tmpdir>>
  /\ \/ \E dirOk, initOk, connOk \in BOOLEAN : New("Conductor", dirOk, initOk, connOk)
     \/ \E i \in Slots, connOk \in BOOLEAN : Clone(i, connOk)
     \/ \E i \in Slots, txnOk \in BOOLEAN : WithCommitBegin(i, txnOk)
     \/ \E i \in Slots, x \in Entries : TxnPut(i, x)
     \/ \E i \in Slots : TxnRead(i)
     \/ \E i \in Slots, r \in RVals : FOk(i, r)
     \/ \E i \in Slots, e \in EVals : FErr(i, e)
     \/ \E i \in Slots, commitOk \in BOOLEAN : Commit(i, commitOk)
     \/ \E i \in Slots, txnOk \in BOOLEAN : WithReaderBegin(i, txnOk)
     \/ \E i \in Slots, r \in RVals : ReaderReturn(i, "Ok", r)
     \/ \E i \in Slots, e \in EVals : ReaderReturn(i, "Err", e)

SpecTxn == Init /\ [][NextTxn]_vars

\* with_commit, line 276, for a closure that returns Ok only once every row
\* of Entries is in its view: it has written all the rows that were missing
FOkAll(i, r) ==
  /\ TxnView(i) = Entries
  /\ FOk(i, r)

\* readers interleaved with writers whose transactions hold all of Entries
NextTorn ==
  /\ UNCHANGED <<cellVars, coolVars, params, registryLock, tmpdir>>
  /\ \/ \E dirOk, initOk, connOk \in BOOLEAN : New("Conductor", dirOk, initOk, connOk)
     \/ \E i \in Slots, connOk \in BOOLEAN : Clone(i, connOk)
     \/ \E i \in Slots, txnOk \in BOOLEAN : WithCommitBegin(i, txnOk)
     \/ \E i \in Slots, x \in Entries : TxnPut(i, x)
     \/ \E i \in Slots : TxnRead(i)
     \/ \E i \in Slots : FOkAll(i, "r1")
     \/ \E i \in Slots : FErr(i, "e1")
     \/ \E i \in Slots, commitOk \in BOOLEAN : Commit(i, commitOk)
     \/ \E i \in Slots, txnOk \in BOOLEAN : WithReaderBegin(i, txnOk)
     \/ \E i \in Slots : ReaderReturn(i, "Ok", "r1")

SpecTorn == Init /\ [][NextTorn]_vars

\* ---------------------------------------------------------------- Cell
LiveCell(n) == cells[n] # NoCell
FreeCellSlots == {n \in CellSlots : ~LiveCell(n)}
\* the slot a newly created Cell is placed in
NewCellSlot == CHOOSE n \in FreeCellSlots : \A m \in FreeCellSlots : n <= m

\* CellConductorApi::new(conductor_handle, id.clone())
CellConductorApi(handle, id) == [handle |-> handle, cell_id |-> id]

\* holochain_state Environment::new(env_path, kind, keystore): the
\* environment of that kind under env_path, or an error when it cannot be
\* opened (ok = FALSE)
EnvironmentNew(root, kind, ok) ==
  IF ok THEN [tag |-> "Ok", env |-> [root |-> root, kind |-> kind]]
        ELSE [tag |-> "Err", env |-> "none"]

\* Ok(Self { id, conductor_api, state_env })
CellOf(id, api, env) == [id |-> id, conductor_api |-> api, state_env |-> env]

\* Cell::create(id, conductor_handle, env_path, keystore); envOk: the
\* environment can be opened. An error of Environment::new leaves create by
\* the ? operator, as a CellError.
Create(id, handle, root, envOk) ==
  LET conductor_api == CellConductorApi(handle, id)
      state_env == EnvironmentNew(root, CellKind(id), envOk)
  IN
  /\ FreeCellSlots # {}
  /\ UNCHANGED <<chain, inv>>
  /\ UNCHANGED envVars
  /\ IF state_env.tag = "Ok"
     THEN /\ cells' = [cells EXCEPT ![NewCellSlot] =
                         CellOf(id, conductor_api, state_env.env)]
          /\ last' = Event("create", NewCellSlot, root, "Ok", id, {})
     ELSE /\ cells' = cells
          /\ last' = Event("create", 0, root, "Err", "CellError", {})

\* a Cell goes out of scope
DropCell(n) ==
  /\ LiveCell(n)
  /\ \A k \in InvIds : inv[k].cell = n => inv[k].resp # "none"
  /\ cells' = [cells EXCEPT ![n] = NoCell]
  /\ last' = Event("dropcell", n, cells[n].state_env.root, "none", "none", {})
  /\ UNCHANGED <<chain, inv>>
  /\ UNCHANGED envVars

CellEqAllFields(a, b) == a = b

\* impl PartialEq for Cell: self.id == other.id
CellEq(a, b) == a.id = b.id

\* impl Hash for Cell: self.id.hash(state); the state of the Hasher is the
\* sequence of the values written to it
CellHash(state, a) == state \o <<a.id>>

\* Cells are created for every CellId, handle and root, and dropped
NextCell ==
  /\ UNCHANGED <<coolVars, params>>
  /\ \/ \E id \in CellIds, h \in Handles, r \in Roots, envOk \in BOOLEAN :
          Create(id, h, r, envOk)
     \/ \E n \in CellSlots : DropCell(n)

SpecCell == Init /\ [][NextCell]_vars

\* ----------------------------------------------------- workflow runner
\* the failures guest execution surfaces
GuestErrors == {"SerializationFailure", "GuestExecutionFailure", "NetworkFailure"}

\* the head of a chain: the hash of its last entry, which links every entry
\* before it and so stands for the chain up to it
ChainHead(ch) == ch

HeadAlwaysCurrent(captured, ch) == TRUE

\* the check made in Committing: the head has not advanced since captured
HeadCurrent(captured, ch) == captured = ChainHead(ch)

PersistedLast(ch, bundle) ==
  IF bundle = <<>> THEN ch ELSE Append(ch, bundle[Len(bundle)])

PersistedTwice(ch, bundle) == ch \o bundle \o bundle

\* every staged entry persisted in bundle order
Persisted(ch, bundle) == ch \o bundle

DiscardedKept(bundle) == bundle

\* the CommitBundle of an aborted invocation is discarded
Discarded(bundle) == <<>>

RetriedBy(i, e) ==
  [i EXCEPT !.state = "Started", !.err = e, !.bundle = Discarded(@)]

\* an invocation aborted with error e: its bundle is discarded and it is
\* not retried
AbortedBy(i, e) ==
  [i EXCEPT !.state = "Aborted", !.err = e, !.bundle = Discarded(@)]

\* the invocations that hold the write transaction of environment e
Writers(e) == {k \in InvIds : inv[k].env = e /\ inv[k].state = "Committing"}

\* Cell::invoke_zome, lines 113-118: the runner is created for the Cell and
\* run_workflow begins; in Started the head is captured under a read snapshot
Invoke(k, n) ==
  /\ inv[k] = NoInv
  /\ \A j \in InvIds : j < k => inv[j] # NoInv
  /\ LiveCell(n)
  /\ inv' = [inv EXCEPT ![k] =
               [NoInv EXCEPT !.cell = n, !.env = cells[n].state_env,
                             !.state = "Started",
                             !.head = ChainHead(chain[cells[n].state_env])]]
  /\ last' = Event("started", k, cells[n].id, "none", "none", {})
  /\ UNCHANGED <<cells, chain>>
  /\ UNCHANGED envVars

\* Started -> Executing: the guest is invoked with a bundle seeded with the
\* captured head
Execute(k) ==
  /\ inv[k].state = "Started"
  /\ inv' = [inv EXCEPT ![k].state = "Executing"]
  /\ last' = Event("executing", k, cells[inv[k].cell].id, "none", "none", {})
  /\ UNCHANGED <<cells, chain>>
  /\ UNCHANGED envVars

\* the entry invocation k proposes as its n-th
NewEntry(k, n) == [inv |-> k, seq |-> n]

\* the guest stages an entry through the API boundary
Stage(k) ==
  /\ inv[k].state = "Executing"
  /\ Len(inv[k].bundle) < MaxBundle
  /\ inv' = [inv EXCEPT ![k].bundle = Append(@, NewEntry(k, Len(@) + 1)),
                        ![k].staged = @ + 1]
  /\ last' = Event("stage", k, cells[inv[k].cell].id, "none", "none", {})
  /\ UNCHANGED <<cells, chain>>
  /\ UNCHANGED envVars

\* Executing -> Aborted: guest execution surfaces a failure
GuestFail(k, e) ==
  /\ inv[k].state = "Executing"
  /\ inv' = [inv EXCEPT ![k] = AbortedBy(@, e)]
  /\ last' = Event("aborted", k, cells[inv[k].cell].id, "Err", e, {})
  /\ UNCHANGED <<cells, chain>>
  /\ UNCHANGED envVars

\* Executing -> Committing: the guest has completed and the one write
\* transaction is opened; write transactions of one environment are
\* serialized
GuestOk(k) ==
  /\ inv[k].state = "Executing"
  /\ Writers(inv[k].env) = {}
  /\ inv' = [inv EXCEPT ![k].state = "Committing", ![k].wtxn = TRUE]
  /\ last' = Event("committing", k, cells[inv[k].cell].id, "none", "none", {})
  /\ UNCHANGED <<cells, chain>>
  /\ UNCHANGED envVars

\* Committing -> Committed | Aborted: the head is re-validated; the staged
\* entries are persisted and the transaction committed, or the invocation
\* is aborted with a stale-head error
CommitStaged(k) ==
  LET e == inv[k].env IN
  /\ inv[k].state = "Committing"
  /\ UNCHANGED cells
  /\ UNCHANGED envVars
  /\ IF HeadCurrent(inv[k].head, chain[e])
     THEN /\ chain' = [chain EXCEPT ![e] = Persisted(@, inv[k].bundle)]
          /\ inv' = [inv EXCEPT ![k].state = "Committed"]
          /\ last' = Event("committed", k, cells[inv[k].cell].id, "Ok", "none", {})
     ELSE /\ chain' = chain
          /\ inv' = [inv EXCEPT ![k] = AbortedBy(@, "StaleHead")]
          /\ last' = Event("aborted", k, cells[inv[k].cell].id, "Err", "StaleHead", {})

\* what run_workflow returns to invoke_zome: the guest output of a
\* Committed invocation, the error of an Aborted one
RunWorkflowResult(i) ==
  IF i.state = "Committed" THEN [tag |-> "Ok", val |-> "output"]
                           ELSE [tag |-> "Err", val |-> i.err]

\* Cell::invoke_zome, lines 118-122: an error of run_workflow leaves by the
\* ? operator; the result is converted to SerializedBytes and to the payload
\* of ZomeInvocationResponse::ZomeApiFn, and a failed conversion (serOk =
\* FALSE) leaves by ? as a SerializationError
InvokeZomeReturn(result, serOk) ==
  IF result.tag = "Err" THEN [tag |-> "Err", val |-> result.val]
  ELSE IF serOk THEN [tag |-> "Ok", val |-> "ZomeApiFn"]
  ELSE [tag |-> "Err", val |-> "SerializationFailure"]

\* invoke_zome returns once run_workflow has ended
Return(k, serOk) ==
  LET ret == InvokeZomeReturn(RunWorkflowResult(inv[k]), serOk) IN
  /\ inv[k].state \in {"Committed", "Aborted"}
  /\ inv[k].resp = "none"
  /\ inv' = [inv EXCEPT ![k].resp = ret.tag]
  /\ last' = Event("invoke_zome", k, cells[inv[k].cell].id, ret.tag, ret.val, {})
  /\ UNCHANGED <<cells, chain>>
  /\ UNCHANGED envVars

\* the invocations made on one Cell, overlapping step by step
NextFlow ==
  /\ UNCHANGED <<coolVars, params>>
  /\ \/ /\ \A n \in CellSlots : ~LiveCell(n)
        /\ Create("c1", "h1", "/r1", TRUE)
     \/ \E k \in InvIds, n \in CellSlots : Invoke(k, n)
     \/ \E k \in InvIds : Execute(k)
     \/ \E k \in InvIds : Stage(k)
     \/ \E k \in InvIds, e \in GuestErrors : GuestFail(k, e)
     \/ \E k \in InvIds : GuestOk(k)
     \/ \E k \in InvIds : CommitStaged(k)
     \/ \E k \in InvIds, serOk \in BOOLEAN : Return(k, serOk)

SpecFlow == Init /\ [][NextFlow]_vars

\* the write transactions of environments of two paths, step by step
NextTwo ==
  /\ UNCHANGED <<cellVars, coolVars, params, registryLock, tmpdir>>
  /\ \/ \E k \in Kinds : New(k, TRUE, TRUE, TRUE)
     \/ \E i \in Slots, txnOk \in BOOLEAN : WithCommitBegin(i, txnOk)
     \/ \E i \in Slots, x \in Entries : TxnPut(i, x)
     \/ \E i \in Slots : FOk(i, "r1")
     \/ \E i \in Slots : FErr(i, "e1")
     \/ \E i \in Slots, commitOk \in BOOLEAN : Commit(i, commitOk)

SpecTwo == Init /\ [][NextTwo]_vars

\* the closure of with_commit or with_reader panics: the hook installed with
\* INITIALIZED_DBS prints the panic and calls the original handler (the call
\* of std::process::abort() is commented out), the thread unwinds and the
\* transaction is dropped; the process goes on
ClosurePanic(i) ==
  /\ call[i].pc = "f"
  /\ txn' = [txn EXCEPT ![i] = Rollback(@)]
  /\ call' = [call EXCEPT ![i] = Idle]
  /\ last' = Event(call[i].op, i, envs[i].path, "Panic", "none", txn[i].writes)
  /\ UNCHANGED <<INITIALIZED_DBS, dirs, disk, initRuns, envs>>

\* transactions on the environments of one path, with closures that panic
NextPanic ==
  /\ UNCHANGED <<cellVars, coolVars, params, registryLock, tmpdir>>
  /\ \/ New("Conductor", TRUE, TRUE, TRUE)
     \/ \E i \in Slots : Clone(i, TRUE)
     \/ \E i \in Slots, txnOk \in BOOLEAN : WithCommitBegin(i, txnOk)
     \/ \E i \in Slots, txnOk \in BOOLEAN : WithReaderBegin(i, txnOk)
     \/ \E i \in Slots, x \in Entries : TxnPut(i, x)
     \/ \E i \in Slots : FOk(i, "r1")
     \/ \E i \in Slots, commitOk \in BOOLEAN : Commit(i, commitOk)
     \/ \E i \in Slots : ReaderReturn(i, "Ok", "r1")
     \/ \E i \in Slots : ClosurePanic(i)

SpecPanic == Init /\ [][NextPanic]_vars

\* environments of one path are cloned and removed while transactions are
\* open on them
NextRm ==
  /\ UNCHANGED <<cellVars, coolVars, params, registryLock, tmpdir>>
  /\ \/ \E dirOk \in BOOLEAN : New("Conductor", dirOk, TRUE, TRUE)
     \/ \E i \in Slots : Clone(i, TRUE)
     \/ \E i \in Slots, rmOk \in BOOLEAN : Remove(i, rmOk)
     \/ \E i \in Slots, txnOk \in BOOLEAN : WithCommitBegin(i, txnOk)
     \/ \E i \in Slots, txnOk \in BOOLEAN : WithReaderBegin(i, txnOk)
     \/ \E i \in Slots, x \in Entries : TxnPut(i, x)
     \/ \E i \in Slots : FErr(i, "e1")
     \/ \E i \in Slots : ReaderReturn(i, "Ok", "r1")

SpecRm == Init /\ [][NextRm]_vars

\* ------------------------------------------------- test environments
\* test_env(kind): a TempDir with a fresh name, and the DbConnection opened
\* in it. The TestEnvironment holds the connection and an Arc of the TempDir.
TestEnv(kind) ==
  LET path == KindPath(kind) IN
  /\ path \notin dirs
  /\ path \notin INITIALIZED_DBS
  /\ \A j \in Slots : envs[j].path # path
  /\ New(kind, TRUE, TRUE, TRUE)
  /\ tmpdir' = [tmpdir EXCEPT ![NewSlot] = TRUE]

\* TestEnvironment derives Clone: the connection and the Arc are cloned
TestEnvClone(i) ==
  /\ tmpdir[i]
  /\ Clone(i, TRUE)
  /\ tmpdir' = [tmpdir EXCEPT ![NewSlot] = TRUE]

\* TestEnvironment::env(): a clone of the connection alone
TestEnvEnv(i) ==
  /\ tmpdir[i]
  /\ Clone(i, TRUE)
  /\ tmpdir' = tmpdir

\* the TempDir is deleted with its contents when its last Arc is dropped
LastTempDir(i) == \A j \in Slots \ {i} : ~(tmpdir[j] /\ envs[j].path = envs[i].path)

\* a TestEnvironment going out of scope drops its connection and its Arc of
\* the TempDir; nothing touches INITIALIZED_DBS
DropTestEnv(i) ==
  LET path == envs[i].path IN
  /\ tmpdir[i]
  /\ call[i] = Idle
  /\ tmpdir' = [tmpdir EXCEPT ![i] = FALSE]
  /\ last' = Event("drop_test_env", i, path, "none",
                   IF LastTempDir(i) THEN "deleted" ELSE "kept", {})
  /\ UNCHANGED <<INITIALIZED_DBS, txn, call>>
  /\ IF LastTempDir(i)
     THEN /\ envs' = [j \in Slots |->
                        IF j = i THEN NoEnv
                        ELSE IF envs[j].path = path
                             THEN [envs[j] EXCEPT !.stale = TRUE]
                             ELSE envs[j]]
          /\ dirs' = dirs \ {path}
          /\ disk' = [disk EXCEPT ![path] = {}]
          /\ initRuns' = [initRuns EXCEPT ![path] = 0]
     ELSE /\ envs' = [envs EXCEPT ![i] = NoEnv]
          /\ UNCHANGED <<dirs, disk, initRuns>>

\* test environments are created, cloned and dropped, and the connections
\* taken from them are removed or dropped
NextTest ==
  /\ UNCHANGED <<cellVars, coolVars, params, registryLock>>
  /\ \/ \E kind \in Kinds : TestEnv(kind)
     \/ \E i \in Slots : TestEnvClone(i)
     \/ \E i \in Slots : TestEnvEnv(i)
     \/ \E i \in Slots : DropTestEnv(i)
     \/ \E i \in Slots, rmOk \in BOOLEAN :
          ~tmpdir[i] /\ Remove(i, rmOk) /\ tmpdir' = tmpdir
     \/ \E i \in Slots : ~tmpdir[i] /\ Drop(i) /\ tmpdir' = tmpdir
     \/ \E i \in Slots, x \in Entries, ok \in BOOLEAN :
          WithCommit(i, {x}, "r1", ok) /\ tmpdir' = tmpdir

SpecTest == Init /\ [][NextTest]_vars

\* ------------------------------------------ the closure of with_reader
\* with_reader hands the closure a rusqlite Transaction by value, the same
\* type txn() returns: the closure may write through it (TxnPut) and may
\* commit it. Here it commits the transaction and returns Ok(r).
\* commitOk: Transaction::commit succeeds
ReaderCommitReturn(i, commitOk, r) ==
  LET path == envs[i].path IN
  /\ call[i].op = "with_reader"
  /\ call[i].pc = "f"
  /\ commitOk => ~envs[i].stale
  /\ call' = [call EXCEPT ![i] = Idle]
  /\ txn' = [txn EXCEPT ![i] = NoTxn]
  /\ UNCHANGED <<INITIALIZED_DBS, dirs, initRuns, envs>>
  /\ IF commitOk
     THEN /\ disk' = [disk EXCEPT ![path] = Committed(@, txn[i])]
          /\ last' = Event("with_reader", i, path, "Ok", r, txn[i].writes)
     ELSE /\ disk' = disk
          /\ last' = Event("with_reader", i, path, "Err", "DatabaseError", {})

\* readers on the environments of one path
NextRead ==
  /\ UNCHANGED <<cellVars, coolVars, params, registryLock, tmpdir>>
  /\ \/ New("Conductor", TRUE, TRUE, TRUE)
     \/ \E i \in Slots : Clone(i, TRUE)
     \/ \E i \in Slots, txnOk \in BOOLEAN : WithReaderBegin(i, txnOk)
     \/ \E i \in Slots, x \in Entries : TxnPut(i, x)
     \/ \E i \in Slots : TxnRead(i)
     \/ \E i \in Slots, r \in RVals : ReaderReturn(i, "Ok", r)
     \/ \E i \in Slots, e \in EVals : ReaderReturn(i, "Err", e)
     \/ \E i \in Slots, commitOk \in BOOLEAN, r \in RVals :
          ReaderCommitReturn(i, commitOk, r)

SpecRead == Init /\ [][NextRead]_vars

\* ------------------------------------------- the lock of the registry
\* parking_lot::RwLock: write() is granted when no guard is held, read()
\* when no write guard is held
Granted(mode) ==
  IF mode = "write"
  THEN \A t \in Threads : registryLock[t].mode = "none"
  ELSE \A t \in Threads : registryLock[t].mode # "write"

\* DbConnection::new, line 150: INITIALIZED_DBS.write(), whether the path is
\* registered or not
NewAccess(registered) == "write"

\* DbConnection::remove, line 194: INITIALIZED_DBS.write()
RemoveAccess == "write"

\* thread t calls DbConnection::new for `kind` and is granted the lock
LockNew(t, kind) ==
  LET reg == KindPath(kind) \in INITIALIZED_DBS IN
  /\ registryLock[t] = NoGuard
  /\ FreeSlots # {}
  /\ Granted(NewAccess(reg))
  /\ registryLock' = [registryLock EXCEPT ![t] =
                        [mode |-> NewAccess(reg), op |-> "new", kind |-> kind,
                         slot |-> 0, registered |-> reg]]
  /\ last' = Event("lock", 0, KindPath(kind), "Ok", NewAccess(reg), {})
  /\ UNCHANGED <<INITIALIZED_DBS, dirs, disk, initRuns, envs, txn, call>>

\* the body of DbConnection::new under the guard, which is dropped when the
\* function returns or unwinds
NewLocked(t, dirOk, initOk, connOk) ==
  /\ registryLock[t].op = "new"
  /\ New(registryLock[t].kind, dirOk, initOk, connOk)
  /\ registryLock' = [registryLock EXCEPT ![t] = NoGuard]

\* thread t calls remove on the connection in slot i and is granted the lock
LockRemove(t, i) ==
  /\ registryLock[t] = NoGuard
  /\ Live(i)
  /\ call[i] = Idle
  /\ \A u \in Threads : registryLock[u].slot # i
  /\ Granted(RemoveAccess)
  /\ registryLock' = [registryLock EXCEPT ![t] =
                        [mode |-> RemoveAccess, op |-> "remove", kind |-> "none",
                         slot |-> i, registered |-> TRUE]]
  /\ last' = Event("lock", i, envs[i].path, "Ok", RemoveAccess, {})
  /\ UNCHANGED <<INITIALIZED_DBS, dirs, disk, initRuns, envs, txn, call>>

\* the body of DbConnection::remove under the guard
RemoveLocked(t, rmOk) ==
  /\ registryLock[t].op = "remove"
  /\ Remove(registryLock[t].slot, rmOk)
  /\ registryLock' = [registryLock EXCEPT ![t] = NoGuard]

\* two threads open and remove environments of two kinds
NextLock ==
  /\ UNCHANGED <<cellVars, coolVars, params, tmpdir>>
  /\ \/ \E t \in Threads, k \in Kinds : LockNew(t, k)
     \/ \E t \in Threads, dirOk, initOk, connOk \in BOOLEAN :
          NewLocked(t, dirOk, initOk, connOk)
     \/ \E t \in Threads, i \in Slots : LockRemove(t, i)
     \/ \E t \in Threads, rmOk \in BOOLEAN : RemoveLocked(t, rmOk)

SpecLock == Init /\ [][NextLock]_vars

\* --------------------------------------------------- EnvironmentKind
\* the kinds without a CellId
FixedKinds == {"Conductor", "Wasm", "P2p"}

\* kind.path() is called for `kind`, a fixed kind or the Cell kind of the
\* CellId id (which stands for its own string form)
PathOf(kind) ==
  /\ last' = Event("path", 0, KindPath(kind), "Ok", kind, {})
  /\ UNCHANGED cellVars
  /\ UNCHANGED envVars

\* path() is called for the fixed kinds and for the kinds of the Cells that
\* were created
NextPath ==
  /\ UNCHANGED <<coolVars, params>>
  /\ \/ \E id \in CellIds, h \in Handles, r \in Roots, envOk \in BOOLEAN :
          Create(id, h, r, envOk)
     \/ \E n \in CellSlots : DropCell(n)
     \/ \E kind \in FixedKinds : PathOf(kind)
     \/ \E n \in CellSlots : LiveCell(n) /\ PathOf(cells[n].state_env.kind.id)

SpecPath == Init /\ [][NextPath]_vars

\* ------------------------------------------------------- NetRequester
\* the guest issues a request through the NetRequester with a timeout and
\* the workflow is suspended on the round trip; an invocation issues one
\* request at most
NetRequest(k) ==
  /\ inv[k].state = "Executing"
  /\ inv[k].net = "none"
  /\ inv' = [inv EXCEPT ![k].net = "waiting"]
  /\ last' = Event("request", k, cells[inv[k].cell].id, "none", "none", {})
  /\ UNCHANGED <<cells, chain>>
  /\ UNCHANGED envVars

ResumedNever(i, how) == i

\* the round trip has ended and the workflow goes on
Resumed(i, how) == [i EXCEPT !.net = how]

\* the response arrives: it is handed to the guest
NetResponse(k) ==
  /\ inv[k].net = "waiting"
  /\ inv' = [inv EXCEPT ![k] = Resumed(@, "answered")]
  /\ last' = Event("request", k, cells[inv[k].cell].id, "Ok", "response", {})
  /\ UNCHANGED <<cells, chain>>
  /\ UNCHANGED envVars

\* the timeout of the request expires: the failure is handed to the guest
NetTimeout(k) ==
  /\ inv[k].net = "waiting"
  /\ inv' = [inv EXCEPT ![k] = Resumed(@, "timedout")]
  /\ last' = Event("request", k, cells[inv[k].cell].id, "Err", "timeout", {})
  /\ UNCHANGED <<cells, chain>>
  /\ UNCHANGED envVars

\* the guest runs: it is not suspended on a request
Running(k) == inv[k].net # "waiting"

\* the guest of invocation k returns, with a failure or with its output
GuestReturns(k) ==
  /\ Running(k)
  /\ \/ \E e \in GuestErrors : GuestFail(k, e)
     \/ GuestOk(k)

\* the invocations made on one Cell, with guests that stage one entry at
\* most and issue requests
NextLive ==
  /\ UNCHANGED <<coolVars, params>>
  /\ \/ /\ \A n \in CellSlots : ~LiveCell(n)
        /\ Create("c1", "h1", "/r1", TRUE)
     \/ \E k \in InvIds, n \in CellSlots : Invoke(k, n)
     \/ \E k \in InvIds : Execute(k)
     \/ \E k \in InvIds : Running(k) /\ inv[k].bundle = <<>> /\ Stage(k)
     \/ \E k \in InvIds : NetRequest(k)
     \/ \E k \in InvIds : NetResponse(k)
     \/ \E k \in InvIds : NetTimeout(k)
     \/ \E k \in InvIds : GuestReturns(k)
     \/ \E k \in InvIds : CommitStaged(k)

\* Every step of the runner is taken once it can be; the guest returns when
\* it is not suspended; the timeout of a request expires. No response need
\* arrive.
FairLive ==
  \A k \in InvIds :
    /\ WF_vars(Execute(k) /\ UNCHANGED <<coolVars, params>>)
    /\ WF_vars(NetTimeout(k) /\ UNCHANGED <<coolVars, params>>)
    /\ WF_vars(GuestReturns(k) /\ UNCHANGED <<coolVars, params>>)
    /\ WF_vars(CommitStaged(k) /\ UNCHANGED <<coolVars, params>>)

SpecLive == Init /\ [][NextLive]_vars /\ FairLive

\* --------------------------------------- Cell::handle_autonomic_process
AutonomicProcesses == {"SlowHeal", "HealthCheck"}

\* the arm of each process is unimplemented!(), which panics
HandleAutonomicProcess(n, process) ==
  /\ LiveCell(n)
  /\ last' = Event("handle_autonomic_process", n, NoPath, "Panic", process, {})
  /\ UNCHANGED <<envVars, cellVars, coolVars, params>>

\* the invocations of one Cell, and the autonomic processes it is handed
NextAuto ==
  /\ UNCHANGED <<coolVars, params>>
  /\ \/ /\ \A n \in CellSlots : ~LiveCell(n)
        /\ Create("c1", "h1", "/r1", TRUE)
     \/ \E k \in InvIds, n \in CellSlots : Invoke(k, n)
     \/ \E k \in InvIds : Execute(k)
     \/ \E k \in InvIds : Stage(k)
     \/ \E k \in InvIds, e \in GuestErrors : GuestFail(k, e)
     \/ \E k \in InvIds : GuestOk(k)
     \/ \E k \in InvIds : CommitStaged(k)
     \/ \E k \in InvIds, serOk \in BOOLEAN : Return(k, serOk)
     \/ \E n \in CellSlots, process \in AutonomicProcesses :
          HandleAutonomicProcess(n, process)

SpecAuto == Init /\ [][NextAuto]_vars

\* ------------------------------------------------------ CoolConductor
LiveCool(c) == cool[c].envs # 0
FreeCoolSlots == {c \in CoolSlots : ~LiveCool(c)}
FreeCondIds == {h \in CondIds : conds[h].state = "none"}
NewCoolSlot == CHOOSE c \in FreeCoolSlots : \A d \in FreeCoolSlots : c <= d
NewCondId == CHOOSE h \in FreeCondIds : \A g \in FreeCondIds : h <= g

CoolEvent(op, c, tag, val) == Event(op, c, NoPath, tag, val, {})

\* CoolConductor::from_existing: a conductor built for the envs and config
FromExistingFirstConfig(envs_, config) ==
  [state |-> "running", envs |-> envs_, config |-> "cfgA", installed |-> <<>>]

FromExisting(envs_, config) ==
  [state |-> "running", envs |-> envs_, config |-> config, installed |-> <<>>]

\* Option::take on the handle field
TakeLeavesHandle(v) == v

Take(v) == [v EXCEPT !.handle = 0]

\* CoolConductor::is_running
IsRunningValue(v) == v.handle # 0

\* CoolConductorHandle::wait_for_shutdown: the conductor is shut down when
\* its shutdown handle was still there to take
WaitForShutdown(cond) ==
  IF cond.state = "running" THEN [cond EXCEPT !.state = "down"] ELSE cond

\* CoolConductor::from_config: new TestEnvironments (named by the slot), a
\* conductor built from them (buildOk: the builder returns Ok, otherwise
\* unwrap() panics) and an empty list of recorded DNAs
FromConfig(config, buildOk) ==
  /\ FreeCoolSlots # {}
  /\ FreeCondIds # {}
  /\ LET c == NewCoolSlot
         h == NewCondId
     IN IF buildOk
        THEN /\ cool' = [cool EXCEPT ![c] = [handle |-> h, envs |-> c,
                                              config |-> config, dnas |-> c]]
             /\ conds' = [conds EXCEPT ![h] = FromExisting(c, config)]
             /\ dnas' = [dnas EXCEPT ![c] = <<>>]
             /\ last' = CoolEvent("from_config", c, "Ok", h)
        ELSE /\ last' = CoolEvent("from_config", c, "Panic", 0)
             /\ UNCHANGED coolVars
  /\ UNCHANGED <<envVars, cellVars, params>>

\* #[derive(Clone)]: the Arc of the handle and the Arc of the DNAs are shared
CloneCool(c) ==
  /\ LiveCool(c)
  /\ FreeCoolSlots # {}
  /\ cool' = [cool EXCEPT ![NewCoolSlot] = cool[c]]
  /\ last' = CoolEvent("clone", NewCoolSlot, "Ok", c)
  /\ UNCHANGED <<dnas, conds, envVars, cellVars, params>>

\* CoolConductor::shutdown. joinOk: awaiting the shutdown handle returns Ok
\* (otherwise expect() panics, after the handle was taken)
Shutdown(c, joinOk) ==
  /\ LiveCool(c)
  /\ LET h == cool[c].handle
     IN IF h # 0
        THEN /\ cool' = [cool EXCEPT ![c] = Take(@)]
             /\ conds' = [conds EXCEPT ![h] = WaitForShutdown(@)]
             /\ last' = CoolEvent("shutdown", c,
                           IF conds[h].state = "running" /\ ~joinOk
                           THEN "Panic" ELSE "Ok", h)
        ELSE /\ last' = CoolEvent("shutdown", c, "Panic", 0)
             /\ UNCHANGED <<cool, conds>>
  /\ UNCHANGED <<dnas, envVars, cellVars, params>>

ReinstalledBackwards(list, n) ==
  [p \in 1..n |-> list[Len(list) + 1 - p]]

\* the loop of startup over the recorded DNAs, of which the first n are
\* installed
Reinstalled(list, n) == SubSeq(list, 1, n)

\* CoolConductor::startup. buildOk: from_existing returns Ok (otherwise
\* unwrap() panics before the handle is stored); n: the number of recorded
\* DNAs whose install_dna returns Ok before one fails (expect() panics)
Startup(c, buildOk, n) ==
  /\ LiveCool(c)
  /\ n \in 0..Len(dnas[cool[c].dnas])
  /\ IF cool[c].handle = 0
     THEN /\ FreeCondIds # {}
          /\ IF buildOk
             THEN LET h == NewCondId
                      built == FromExisting(cool[c].envs, cool[c].config)
                  IN /\ cool' = [cool EXCEPT ![c].handle = h]
                     /\ conds' = [conds EXCEPT ![h] =
                          [built EXCEPT !.installed =
                             Reinstalled(dnas[cool[c].dnas], n)]]
                     /\ last' = CoolEvent("startup", c,
                                   IF n = Len(dnas[cool[c].dnas])
                                   THEN "Ok" ELSE "Panic", h)
             ELSE /\ last' = CoolEvent("startup", c, "Panic", 0)
                  /\ UNCHANGED <<cool, conds>>
     ELSE /\ buildOk /\ n = 0
          /\ last' = CoolEvent("startup", c, "Panic", cool[c].handle)
          /\ UNCHANGED <<cool, conds>>
  /\ UNCHANGED <<dnas, envVars, cellVars, params>>

\* CoolConductor::is_running
IsRunning(c) ==
  /\ LiveCool(c)
  /\ last' = CoolEvent("is_running", c, "Ok", IsRunningValue(cool[c]))
  /\ UNCHANGED <<coolVars, envVars, cellVars, params>>

\* the accessors of the handle: handle(), as_ref(), deref() and borrow()
HandleAccessors == {"handle", "as_ref", "deref", "borrow"}

UseHandle(c, via) ==
  /\ LiveCool(c)
  /\ last' = CoolEvent(via, c,
                IF cool[c].handle # 0 THEN "Ok" ELSE "Panic", cool[c].handle)
  /\ UNCHANGED <<coolVars, envVars, cellVars, params>>

\* one turn of the loop of CoolConductor::setup_app_inner: install_dna through
\* the handle (deref), then the DNA is recorded. installOk: install_dna
\* returns Ok (otherwise expect() panics). The recorded list is kept no
\* longer than the number of DNA files.
SetupApp(c, dna, installOk) ==
  /\ LiveCool(c)
  /\ Len(dnas[cool[c].dnas]) < Cardinality(DnaFiles)
  /\ LET h == cool[c].handle
     IN IF h # 0 /\ installOk
        THEN /\ conds' = [conds EXCEPT ![h].installed = Append(@, dna)]
             /\ dnas' = [dnas EXCEPT ![cool[c].dnas] = Append(@, dna)]
             /\ last' = CoolEvent("setup_app", c, "Ok", h)
        ELSE /\ last' = CoolEvent("setup_app", c, "Panic", h)
             /\ UNCHANGED <<dnas, conds>>
  /\ UNCHANGED <<cool, envVars, cellVars, params>>

\* one CoolConductor is built from a config, the other values are its
\* clones; one DNA is installed through setup_app
NextCool ==
  \/ /\ \A c \in CoolSlots : ~LiveCool(c)
     /\ \E config \in Configs, buildOk \in BOOLEAN : FromConfig(config, buildOk)
  \/ \E c \in CoolSlots : CloneCool(c)
  \/ \E c \in CoolSlots, joinOk \in BOOLEAN : Shutdown(c, joinOk)
  \/ \E c \in CoolSlots, buildOk \in BOOLEAN, n \in 0..Cardinality(DnaFiles) :
        Startup(c, buildOk, n)
  \/ \E c \in CoolSlots : IsRunning(c)
  \/ \E c \in CoolSlots, via \in HandleAccessors : UseHandle(c, via)
  \/ \E c \in CoolSlots, dna \in DnaFiles, installOk \in BOOLEAN :
        /\ LiveCool(c)
        /\ dnas[cool[c].dnas] = <<>>
        /\ SetupApp(c, dna, installOk)

SpecCool == Init /\ [][NextCool]_vars

\* one CoolConductor and its clones: DNAs are installed through setup_app,
\* the conductor is shut down and started again
NextDna ==
  \/ /\ \A c \in CoolSlots : ~LiveCool(c)
     /\ FromConfig("cfgA", TRUE)
  \/ \E c \in CoolSlots : CloneCool(c)
  \/ \E c \in CoolSlots : Shutdown(c, TRUE)
  \/ \E c \in CoolSlots, n \in 0..Cardinality(DnaFiles) : Startup(c, TRUE, n)
  \/ \E c \in CoolSlots, dna \in DnaFiles, installOk \in BOOLEAN :
        SetupApp(c, dna, installOk)

SpecDna == Init /\ [][NextDna]_vars

\* --------------------------------------------- KitsuneP2pTuningParams
\* A u32 is kept as two 16-bit halves, value = hi * 2^16 + lo.
Half == 2^16
U32(n) == [hi |-> n \div Half, lo |-> n % Half]

\* the fields of the struct, in the order of their declaration
TuningFields ==
  << "gossip_loop_iteration_delay_ms",
     "default_notify_remote_agent_count",
     "default_notify_timeout_ms",
     "default_rpc_single_timeout_ms",
     "default_rpc_multi_remote_agent_count",
     "default_rpc_multi_timeout_ms",
     "agent_info_expires_after_ms",
     "tls_in_mem_session_storage",
     "proxy_keepalive_ms",
     "proxy_to_expire_ms",
     "concurrent_recv_buffer",
     "quic_max_idle_timeout_ms",
     "quic_connection_channel_limit",
     "quic_window_multiplier",
     "quic_crypto_buffer_multiplier" >>

FieldNames == {TuningFields[i] : i \in 1..Len(TuningFields)}

\* impl Default
DefaultParams ==
  [ gossip_loop_iteration_delay_ms |-> U32(10),
    default_notify_remote_agent_count |-> U32(5),
    default_notify_timeout_ms |-> U32(1000),
    default_rpc_single_timeout_ms |-> U32(2000),
    default_rpc_multi_remote_agent_count |-> U32(2),
    default_rpc_multi_timeout_ms |-> U32(2000),
    agent_info_expires_after_ms |-> U32(1000 * 60 * 20),
    tls_in_mem_session_storage |-> U32(512),
    proxy_keepalive_ms |-> U32(1000 * 60 * 2),
    proxy_to_expire_ms |-> U32(1000 * 60 * 5),
    concurrent_recv_buffer |-> U32(512),
    quic_max_idle_timeout_ms |-> U32(1000 * 30),
    quic_connection_channel_limit |-> U32(512),
    quic_window_multiplier |-> U32(1),
    quic_crypto_buffer_multiplier |-> U32(1) ]

\* Strings are sequences of characters.
Digits == <<"0", "1", "2", "3", "4", "5", "6", "7", "8", "9">>
IsDigit(ch) == \E d \in 0..9 : Digits[d + 1] = ch
DigitValue(ch) == CHOOSE d \in 0..9 : Digits[d + 1] = ch

ParseOk(v) == [ok |-> TRUE, val |-> v]
ParseErr == [ok |-> FALSE, val |-> U32(0)]

\* one digit more: checked_mul(10) and checked_add(d) on a u32
MulAdd(v, d) ==
  LET wide == v.lo * 10 + d
      hi == v.hi * 10 + (wide \div Half)
  IN IF hi < Half THEN ParseOk([hi |-> hi, lo |-> wide % Half]) ELSE ParseErr

RECURSIVE ParseDigits(_, _)
ParseDigits(s, acc) ==
  IF s = <<>> THEN ParseOk(acc)
  ELSE IF ~IsDigit(Head(s)) THEN ParseErr
  ELSE LET r == MulAdd(acc, DigitValue(Head(s)))
       IN IF r.ok THEN ParseDigits(Tail(s), r.val) ELSE ParseErr

\* str::parse::<u32>: an optional "+", then one digit or more, no overflow
ParseU32(s) ==
  IF s = <<>> THEN ParseErr
  ELSE LET body == IF Head(s) = "+" THEN Tail(s) ELSE s
       IN IF body = <<>> THEN ParseErr ELSE ParseDigits(body, U32(0))

\* v divided by ten: the quotient and the last decimal digit
DivTen(v) ==
  LET low == (v.hi % 10) * Half + v.lo
  IN [q |-> [hi |-> v.hi \div 10, lo |-> low \div 10], r |-> low % 10]

\* format!("{}", v) of a u32: its decimal digits, "0" for zero
RECURSIVE FormatU32(_)
FormatU32(v) ==
  LET d == DivTen(v)
  IN IF d.q = U32(0) THEN <<Digits[d.r + 1]>>
     ELSE Append(FormatU32(d.q), Digits[d.r + 1])

\* the match of Deserialize: the field each known key is assigned to
ArmField ==
  [ gossip_loop_iteration_delay_ms |-> "gossip_loop_iteration_delay_ms",
    default_notify_remote_agent_count |-> "default_notify_remote_agent_count",
    default_notify_timeout_ms |-> "default_notify_timeout_ms",
    default_rpc_single_timeout_ms |-> "default_rpc_single_timeout_ms",
    default_rpc_multi_remote_agent_count |-> "default_rpc_multi_remote_agent_count",
    default_rpc_multi_timeout_ms |-> "default_rpc_multi_timeout_ms",
    agent_info_expires_after_ms |-> "agent_info_expires_after_ms",
    tls_in_mem_session_storage |-> "tls_in_mem_session_storage",
    proxy_keepalive_ms |-> "proxy_keepalive_ms",
    proxy_to_expire_ms |-> "proxy_to_expire_ms",
    concurrent_recv_buffer |-> "concurrent_recv_buffer",
    quic_max_idle_timeout_ms |-> "quic_max_idle_timeout_ms",
    quic_connection_channel_limit |-> "quic_connection_channel_limit",
    quic_window_multiplier |-> "quic_window_multiplier",
    quic_crypto_buffer_multiplier |-> "quic_crypto_buffer_multiplier" ]

\* an arm of a known key: Ok(v) is assigned, Err(e) is logged
ArmZeroOnErr(old, parsed) == IF parsed.ok THEN parsed.val ELSE U32(0)

Arm(old, parsed) == IF parsed.ok THEN parsed.val ELSE old

\* the arm `_`: the key is logged
UnknownArmFails(res) == [res EXCEPT !.ok = FALSE]

UnknownArm(res) == res

\* the loop over the entries of the HashMap (its keys are distinct)
RECURSIVE DeserializeLoop(_, _, _)
DeserializeLoop(map, keys, res) ==
  IF keys = {} THEN res
  ELSE LET k == CHOOSE x \in keys : TRUE
           next == IF k \in DOMAIN ArmField
                   THEN [res EXCEPT !.val[ArmField[k]] =
                                      Arm(@, ParseU32(map[k]))]
                   ELSE UnknownArm(res)
       IN DeserializeLoop(map, keys \ {k}, next)

\* impl Deserialize, from the HashMap<String, String> that was read
Deserialize(map) ==
  DeserializeLoop(map, DOMAIN map, [ok |-> TRUE, val |-> DefaultParams])

\* the entries of Serialize: the key each field is written under
EntryKey ==
  [ gossip_loop_iteration_delay_ms |-> "gossip_loop_iteration_delay_ms",
    default_notify_remote_agent_count |-> "default_notify_remote_agent_count",
    default_notify_timeout_ms |-> "default_notify_timeout_ms",
    default_rpc_single_timeout_ms |-> "default_rpc_single_timeout_ms",
    default_rpc_multi_remote_agent_count |-> "default_rpc_multi_remote_agent_count",
    default_rpc_multi_timeout_ms |-> "default_rpc_multi_timeout_ms",
    agent_info_expires_after_ms |-> "agent_info_expires_after_ms",
    tls_in_mem_session_storage |-> "tls_in_mem_session_storage",
    proxy_keepalive_ms |-> "proxy_keepalive_ms",
    proxy_to_expire_ms |-> "proxy_to_expire_ms",
    concurrent_recv_buffer |-> "concurrent_recv_buffer",
    quic_max_idle_timeout_ms |-> "quic_max_idle_timeout_ms",
    quic_connection_channel_limit |-> "quic_connection_channel_limit",
    quic_window_multiplier |-> "quic_window_multiplier",
    quic_crypto_buffer_multiplier |-> "quic_crypto_buffer_multiplier" ]

\* impl Serialize: serialize_map(Some(1)), then an entry for each field
DeclaredLen == 1

Serialize(p) ==
  [len |-> DeclaredLen,
   entries |-> [i \in 1..Len(TuningFields) |->
                  <<EntryKey[TuningFields[i]], FormatU32(p[TuningFields[i]])>>]]

\* Data formats: a text format (YAML, JSON) ends a map by a delimiter and
\* makes no use of the declared length; a counted format (MessagePack,
\* bincode) writes the declared length and reads that many entries back.
Formats == {"text", "counted"}

\* HashMap<String, String>::deserialize of what the serializer wrote
ReadMap(wire, format) ==
  LET n == IF format = "text" THEN Len(wire.entries) ELSE wire.len
      read == SubSeq(wire.entries, 1, n)
      keys == {read[i][1] : i \in 1..Len(read)}
  IN [k \in keys |->
        LET i == CHOOSE j \in 1..Len(read) :
                   /\ read[j][1] = k
                   /\ \A l \in 1..Len(read) : read[l][1] = k => l <= j
        IN read[i][2]]

\* the keys and the values of the maps that are deserialized
UnknownKeys == {"removed_param"}
InputKeys == FieldNames \cup UnknownKeys
StrVals ==
  { <<"7">>, <<"+", "7">>, <<>>, <<"-", "1">>,
    <<"4", "2", "9", "4", "9", "6", "7", "2", "9", "5">>,
    <<"4", "2", "9", "4", "9", "6", "7", "2", "9", "6">> }
U32Vals == {U32(0), U32(7), U32(Half), [hi |-> Half - 1, lo |-> Half - 1]}

TuningEvent(op, tag) == Event(op, 0, NoPath, tag, "none", {})

\* KitsuneP2pTuningParams::deserialize of a map of at most MaxEntries keys
DeserializeMap(map) ==
  /\ params = NoParams
  /\ params' = [op |-> "deserialize", in |-> map, out |-> Deserialize(map)]
  /\ last' = TuningEvent("deserialize",
                         IF Deserialize(map).ok THEN "Ok" ELSE "Err")
  /\ UNCHANGED <<envVars, cellVars, coolVars>>

\* p is serialized in a format and what was written is deserialized
RoundTrip(p, format) ==
  /\ params = NoParams
  /\ params' = [op |-> "roundtrip", p |-> p, format |-> format,
                wire |-> Serialize(p),
                back |-> Deserialize(ReadMap(Serialize(p), format))]
  /\ last' = TuningEvent("roundtrip", "Ok")
  /\ UNCHANGED <<envVars, cellVars, coolVars>>

\* the parameter values that differ from the default in the fields `fs`
ParamsWith(fs, vals) ==
  [f \in FieldNames |-> IF f \in fs THEN vals[f] ELSE DefaultParams[f]]

\* one call, of either operation, on an input of the bounded sets
NextTuning ==
  /\ params = NoParams
  /\ \/ \E keys \in SUBSET InputKeys :
          /\ Cardinality(keys) <= MaxEntries
          /\ \E map \in [keys -> StrVals] : DeserializeMap(map)
     \/ \E fs \in SUBSET FieldNames :
          /\ Cardinality(fs) <= MaxEntries
          /\ \E vals \in [fs -> U32Vals], format \in Formats :
               RoundTrip(ParamsWith(fs, vals), format)

SpecTuning == Init /\ [][NextTuning]_vars

\* ------------------------------------------------------------- claims
\* C1: any two environments of one path are backed by the identical
\* storage handle, so that at most one live handle per path exists.
C1_SingleHandlePerPath ==
  \A i, j \in Slots :
    (Live(i) /\ Live(j) /\ envs[i].path = envs[j].path)
      => envs[i].conn = envs[j].conn

\* C2: with no remove in between, the tables of a path are initialized at
\* most once, however many times the path is opened.
C2_InitAtMostOnce == \A p \in Paths : initRuns[p] <= 1

\* C3: an environment is returned by open only after the initialization of
\* its path has run.
C3_InitBeforeReturn ==
  (last.op = "new" /\ last.tag = "Ok") => initRuns[last.path] >= 1

\* C4: open on a path whose directory is missing and cannot be created
\* returns EnvironmentMissing(path), registers nothing and opens no handle.
C4_MissingDirFails ==
  [][\A k \in Kinds, initOk, connOk \in BOOLEAN :
       (KindPath(k) \notin dirs /\ New(k, FALSE, initOk, connOk)) =>
         /\ last' = Event("new", 0, KindPath(k), "Err", "EnvironmentMissing", {})
         /\ INITIALIZED_DBS' = INITIALIZED_DBS
         /\ dirs' = dirs
         /\ envs' = envs]_vars

C4_Witness ==
  /\ last.op = "new"
  /\ last.val = "EnvironmentMissing"
  /\ last.path \notin INITIALIZED_DBS
  /\ \E q \in INITIALIZED_DBS : q # last.path

\* C5: after a successful remove the path is neither registered nor on
\* disk, and the registry entries, directories and rows of every other path
\* are what they were.
C5_RemoveFrame ==
  [][(last'.op = "remove" /\ last'.tag = "Ok") =>
       LET p == last'.path IN
       /\ p \notin INITIALIZED_DBS'
       /\ p \notin dirs'
       /\ disk'[p] = {}
       /\ INITIALIZED_DBS' \ {p} = INITIALIZED_DBS \ {p}
       /\ dirs' \ {p} = dirs \ {p}
       /\ \A q \in Paths \ {p} : disk'[q] = disk[q]]_vars

C5_Witness ==
  /\ last.op = "remove"
  /\ last.tag = "Ok"
  /\ \E q \in INITIALIZED_DBS : q # last.path /\ disk[q] # {}

\* C6: an open that follows a successful remove of the same path returns an
\* environment that is empty and whose tables have been initialized again.
C6_OpenRemoveOpen ==
  [][(/\ last.op = "remove" /\ last.tag = "Ok"
      /\ last'.op = "new" /\ last'.tag = "Ok" /\ last'.path = last.path) =>
       /\ disk'[last.path] = {}
       /\ initRuns'[last.path] >= 1]_vars

C8_ErrRollsBack ==
  [][\A i \in Slots :
       /\ \A e \in EVals :
            FErr(i, e) =>
              /\ last'.op = "with_commit" /\ last'.tag = "Err" /\ last'.val = e
              /\ call'[i] = Idle
              /\ txn'[i] = NoTxn
              /\ disk' = disk
       /\ \A x \in Entries : TxnPut(i, x) => disk' = disk]_vars

C8_Witness ==
  /\ last.op = "with_commit"
  /\ last.tag = "Err"
  /\ last.val = "e2"
  /\ last.rows = Entries
  /\ disk[last.path] = {}

\* C9: for each path at most one write transaction is open and uncommitted.
WriterOpen(i) == call[i].op = "with_commit"

C11_NoTornRead ==
  /\ last.op = "read" =>
       LET seen == last.rows \ txn[last.env].writes
       IN  seen = {} \/ seen = Entries
  /\ \A i \in Slots : txn[i].open => txn[i].snap \in {{}, Entries}

\* one reader has read all the rows while another reader, opened before
\* the commit, is still on the empty snapshot
C11_Witness ==
  /\ last.op = "read"
  /\ call[last.env].op = "with_reader"
  /\ last.rows = Entries
  /\ \E j \in Slots : /\ j # last.env
                      /\ call[j].op = "with_reader"
                      /\ txn[j].snap = {}

\* C19: two Cells are equal exactly when their CellIds are equal, whatever
\* their environments and conductor handles are, and equal Cells write the
\* same to a Hasher: what a Cell writes depends on its CellId only.
C19_EqByCellId ==
  \A n, m \in CellSlots :
    (LiveCell(n) /\ LiveCell(m)) =>
      /\ CellEq(cells[n], cells[m]) <=> cells[n].id = cells[m].id
      /\ CellEq(cells[n], cells[m]) =>
           CellHash(<<>>, cells[n]) = CellHash(<<>>, cells[m])
      /\ cells[n].id = cells[m].id =>
           CellHash(<<>>, cells[n]) = CellHash(<<>>, cells[m])

\* two Cells of one CellId that differ in environment and in handle
C19_Witness ==
  \E n, m \in CellSlots :
    /\ LiveCell(n) /\ LiveCell(m)
    /\ cells[n].id = cells[m].id
    /\ cells[n].state_env # cells[m].state_env
    /\ cells[n].conductor_api.handle # cells[m].conductor_api.handle

\* C20: Cell::create opens the environment of kind Cell(id) under the root
\* it is given, for the id the Cell is given; when the environment cannot
\* be opened create returns an error and no Cell is produced.
C20_CreateOpensCellEnv ==
  /\ [](\A n \in CellSlots :
          LiveCell(n) =>
            /\ cells[n].state_env.kind = [tag |-> "Cell", id |-> cells[n].id]
            /\ cells[n].conductor_api.cell_id = cells[n].id)
  /\ [][\A id \in CellIds, h \in Handles, r \in Roots :
          /\ Create(id, h, r, TRUE) =>
               /\ last'.tag = "Ok"
               /\ cells'[last'.env].id = id
               /\ cells'[last'.env].state_env.root = r
               /\ cells'[last'.env].state_env.kind.id = id
               /\ \A n \in CellSlots \ {last'.env} : cells'[n] = cells[n]
          /\ Create(id, h, r, FALSE) =>
               /\ last' = Event("create", 0, r, "Err", "CellError", {})
               /\ cells' = cells]_vars

\* create has failed while a Cell of another root is alive
C20_Witness ==
  /\ last.op = "create"
  /\ last.tag = "Err"
  /\ \E n \in CellSlots : LiveCell(n) /\ cells[n].state_env.root # last.path

\* the invocations whose entries are in the chain of environment e
InChain(e) == {chain[e][p].inv : p \in 1..Len(chain[e])}

\* C12: when guest execution fails after entries were staged, the chain is
\* left as it was and the bundle is gone; no entry of an invocation that is
\* not Committed is ever in storage.
C12_GuestFailureLeavesNoEntry ==
  /\ [](\A e \in ChainKeys : \A k \in InChain(e) : inv[k].state = "Committed")
  /\ [][\A k \in InvIds :
          (inv[k].state = "Executing" /\ inv'[k].state = "Aborted") =>
            /\ chain' = chain
            /\ inv'[k].bundle = <<>>
            /\ inv'[k].err \in GuestErrors]_vars

\* a new invocation captures the head that an invocation captured which
\* has since failed in the guest with entries staged
C12_Witness ==
  /\ last.op = "started"
  /\ \E k \in InvIds :
       /\ k # last.env
       /\ inv[k].state = "Aborted"
       /\ inv[k].err \in GuestErrors
       /\ inv[k].staged > 0
       /\ inv[k].resp = "Err"
       /\ inv[last.env].head = inv[k].head

\* C13: an invocation that comes to commit after the persisted head has
\* advanced past the head it captured is aborted with StaleHead, and the
\* chain stays as the other commit left it.
C13_StaleHeadRejected ==
  [][\A k \in InvIds :
       (/\ inv[k].state = "Committing"
        /\ inv'[k].state # "Committing"
        /\ chain[inv[k].env] # inv[k].head) =>
         /\ inv'[k].state = "Aborted"
         /\ inv'[k].err = "StaleHead"
         /\ inv'[k].bundle = <<>>
         /\ chain' = chain]_vars

\* an invocation with entries staged has been aborted with StaleHead
C13_Witness ==
  /\ last.op = "aborted"
  /\ last.val = "StaleHead"
  /\ inv[last.env].staged > 0
  /\ chain[inv[last.env].env] # inv[last.env].head
  /\ InChain(inv[last.env].env) # {}

\* ch begins with the sequence pre
IsPrefix(pre, ch) ==
  /\ Len(pre) <= Len(ch)
  /\ \A p \in 1..Len(pre) : ch[p] = pre[p]

Transitions ==
  {<<"None", "Started">>, <<"Started", "Executing">>,
   <<"Executing", "Committing">>, <<"Committing", "Committed">>,
   <<"Executing", "Aborted">>, <<"Committing", "Aborted">>}

\* C15: an invocation moves by Started -> Executing -> Committing ->
\* Committed, Executing -> Aborted and Committing -> Aborted only; Committed
\* and Aborted are never left; the write transaction is opened on entering
\* Committing and at no other step, so that an invocation whose guest
\* execution failed has opened none.
C15_StateMachine ==
  /\ [][\A k \in InvIds :
          /\ inv'[k].state # inv[k].state =>
               <<inv[k].state, inv'[k].state>> \in Transitions
          /\ inv[k].state \in {"Committed", "Aborted"} =>
               /\ inv'[k].state = inv[k].state
               /\ inv'[k].err = inv[k].err
          /\ inv'[k].wtxn # inv[k].wtxn =>
               (inv[k].state = "Executing" /\ inv'[k].state = "Committing")
          /\ inv'[k].state = "Committing" => inv'[k].wtxn]_vars
  /\ [](\A k \in InvIds :
          (inv[k].state = "Aborted" /\ inv[k].err \in GuestErrors) => ~inv[k].wtxn)

\* invoke_zome has returned for an invocation that opened its write
\* transaction and was aborted in Committing, and the invocation is Aborted
\* still
C15_Witness ==
  /\ last.op = "invoke_zome"
  /\ inv[last.env].state = "Aborted"
  /\ inv[last.env].err = "StaleHead"
  /\ inv[last.env].wtxn
  /\ inv[last.env].resp = "Err"

\* C16: when an invocation becomes Committed the persisted chain is the
\* chain at the captured head followed by the staged entries in bundle
\* order, the persisted head is the last staged entry, and no entry is in
\* the chain twice.
C16_PersistedInBundleOrder ==
  /\ [][\A k \in InvIds :
          (inv[k].state = "Committing" /\ inv'[k].state = "Committed") =>
            LET ch == chain'[inv[k].env] IN
            /\ ch = inv[k].head \o inv[k].bundle
            /\ inv[k].bundle # <<>> => ch[Len(ch)] = inv[k].bundle[Len(inv[k].bundle)]
            /\ inv'[k].bundle = inv[k].bundle]_vars
  /\ [](\A e \in ChainKeys : \A p, q \in 1..Len(chain[e]) :
          chain[e][p] = chain[e][q] => p = q)

\* a bundle of MaxBundle entries has been committed onto a chain that was
\* not empty
C16_Witness ==
  /\ last.op = "committed"
  /\ Len(inv[last.env].bundle) = MaxBundle
  /\ inv[last.env].head # <<>>

\* C17: an invocation that ends with an error returns an invocation
\* response that carries the error: invoke_zome does not fail.
C17_ErrorInResponse ==
  (last.op = "invoke_zome" /\ inv[last.env].state = "Aborted") =>
    /\ last.tag = "Ok"
    /\ last.val = inv[last.env].err

\* C18: when invoke_zome returns an error, the invocation has persisted
\* nothing.
C18_ErrorMeansNothingPersisted ==
  (last.op = "invoke_zome" /\ last.tag = "Err") =>
    /\ inv[last.env].state = "Aborted"
    /\ last.env \notin InChain(inv[last.env].env)

\* C21: path() gives "conductor" for Conductor, "wasm" for Wasm, "p2p" for
\* P2p and the string form of the id for Cell(id); it gives a path for
\* every kind, and the same path whenever it is called for the same kind.
C21_KindPathMapping ==
  /\ [](last.op = "path" =>
          /\ last.val = "Conductor" => last.path = "conductor"
          /\ last.val = "Wasm" => last.path = "wasm"
          /\ last.val = "P2p" => last.path = "p2p"
          /\ last.val \in CellIds => last.path = last.val
          /\ last.path \in {"conductor", "wasm", "p2p"} \cup CellIds)
  /\ [][(last.op = "path" /\ last'.op = "path" /\ last'.val = last.val) =>
          last'.path = last.path]_vars

\* path() was called for the P2p kind while Cells of both CellIds are alive
C21_Witness ==
  /\ last.op = "path"
  /\ last.val = "P2p"
  /\ \A id \in CellIds : \E n \in CellSlots : cells[n].id = id

\* C22: while a write transaction is open on the environment of one path,
\* with_commit on an environment of another path can open its transaction,
\* have its closure return and commit; that commit writes the rows of its
\* own transaction to its own path and leaves the other path as it is.
C22_OtherPathNotBlocked ==
  /\ [](\A i, j \in Slots :
          (/\ Live(i) /\ Live(j) /\ envs[i].path # envs[j].path
           /\ WriterOpen(i) /\ ~envs[j].stale) =>
            /\ call[j] = Idle =>
                 ENABLED (WithCommitBegin(j, TRUE) /\ UNCHANGED <<cellVars, coolVars, params, registryLock, tmpdir>>)
            /\ (WriterOpen(j) /\ call[j].pc = "f") =>
                 ENABLED (FOk(j, "r1") /\ UNCHANGED <<cellVars, coolVars, params, registryLock, tmpdir>>)
            /\ call[j].pc = "commit" =>
                 ENABLED (Commit(j, TRUE) /\ UNCHANGED <<cellVars, coolVars, params, registryLock, tmpdir>>))
  /\ [][\A i, j \in Slots :
          (/\ WriterOpen(i) /\ envs[i].path # envs[j].path
           /\ call[j].pc = "commit" /\ call'[j] = Idle /\ last'.tag = "Ok") =>
            /\ disk'[envs[j].path] = disk[envs[j].path] \cup txn[j].writes
            /\ disk'[envs[i].path] = disk[envs[i].path]
            /\ txn'[i] = txn[i] /\ call'[i] = call[i]]_vars

\* with_commit has committed rows on one path while the write transaction
\* opened before it on another path is still open with rows written
C22_Witness ==
  /\ last.op = "with_commit"
  /\ last.tag = "Ok"
  /\ disk[last.path] # {}
  /\ \E i \in Slots :
       /\ WriterOpen(i) /\ call[i].pc = "f"
       /\ envs[i].path # last.path
       /\ txn[i].writes # {}
       /\ disk[envs[i].path] = {}

\* C23: a panic raised during a storage transaction terminates the
\* process: the step after it neither starts nor commits a transaction.
C23_PanicTerminates ==
  [][(last.tag = "Panic" /\ last.op \in {"with_commit", "with_reader"}) =>
       /\ last'.op \notin {"txn", "reader"}
       /\ ~(last'.op = "with_commit" /\ last'.tag = "Ok")]_vars

\* C24: no transaction is open on an environment whose directory remove
\* has deleted.
C24_NoRemoveUnderTxn ==
  \A j \in Slots : (Live(j) /\ txn[j].open) => ~envs[j].stale

\* the operations of a CoolConductor that need its handle
HandleOps == HandleAccessors \cup {"shutdown", "setup_app"}

\* C25: shutdown of a CoolConductor that holds a handle shuts the underlying
\* conductor down and leaves the handle empty and the envs, the config and
\* the recorded DNAs as they were; on a value without a handle is_running()
\* is false, every operation that needs the handle (a second shutdown
\* included) panics, and only startup gives the value a handle again.
C25_ShutdownStopsAndKeeps ==
  [][\A c \in CoolSlots :
       /\ (last'.op = "shutdown" /\ last'.env = c /\ cool[c].handle # 0) =>
            /\ ~IsRunningValue(cool'[c])
            /\ cool'[c].envs = cool[c].envs
            /\ cool'[c].config = cool[c].config
            /\ cool'[c].dnas = cool[c].dnas
            /\ dnas' = dnas
            /\ conds'[cool[c].handle].state = "down"
       /\ (LiveCool(c) /\ cool[c].handle = 0 /\ last'.env = c) =>
            /\ last'.op = "is_running" => last'.val = FALSE
            /\ last'.op \in HandleOps =>
                 last'.tag = "Panic" /\ cool' = cool /\ conds' = conds
            /\ cool'[c].handle # 0 => last'.op = "startup"]_vars

\* a second shutdown of a CoolConductor has panicked
C25_Witness ==
  \E c \in CoolSlots :
    /\ last.op = "shutdown" /\ last.env = c /\ last.tag = "Panic"
    /\ last.val = 0
    /\ cool[c].handle = 0
    /\ \E h \in CondIds : conds[h].state = "down" /\ conds[h].envs = cool[c].envs

\* C26: startup of a CoolConductor without a handle, when the conductor can
\* be built, stores the handle of a new running conductor built from the
\* envs and the config of the value, so that is_running() is true; startup
\* of a CoolConductor that holds a handle panics and changes nothing.
C26_StartupStartsOrPanics ==
  [][\A c \in CoolSlots :
       (last'.op = "startup" /\ last'.env = c) =>
         IF cool[c].handle = 0
         THEN last'.val # 0 =>
                /\ conds[last'.val].state = "none"
                /\ cool'[c].handle = last'.val
                /\ IsRunningValue(cool'[c])
                /\ conds'[last'.val].state = "running"
                /\ conds'[last'.val].envs = cool[c].envs
                /\ conds'[last'.val].config = cool[c].config
                /\ cool'[c].envs = cool[c].envs
                /\ cool'[c].config = cool[c].config
         ELSE /\ last'.tag = "Panic"
              /\ cool' = cool
              /\ conds' = conds]_vars

\* a stopped CoolConductor of the second config has been started again
C26_Witness ==
  \E c \in CoolSlots :
    /\ last.op = "startup" /\ last.env = c /\ last.tag = "Ok"
    /\ cool[c].handle = last.val
    /\ cool[c].config = "cfgB"
    /\ conds[last.val].state = "running"
    /\ \E h \in CondIds : conds[h].state = "down" /\ conds[h].envs = cool[c].envs


\* the map without the key k
Without(map, k) == [x \in DOMAIN map \ {k} |-> map[x]]

\* C27: deserializing a map of strings that holds a key which is no tuning
\* parameter succeeds, and yields the value that the map without that key
\* yields.
C27_UnknownKeySkipped ==
  params.op = "deserialize" =>
    \A k \in DOMAIN params.in \ FieldNames :
      /\ params.out.ok
      /\ params.out = Deserialize(Without(params.in, k))

\* a map with an unknown key and a known key that was parsed and assigned
C27_Witness ==
  /\ params.op = "deserialize"
  /\ \E k \in DOMAIN params.in : k \notin FieldNames
  /\ \E f \in DOMAIN params.in \cap FieldNames :
       /\ ParseU32(params.in[f]).ok
       /\ params.out.val[f] # DefaultParams[f]

\* C28: deserialization of a map of strings succeeds, and each field is the
\* u32 parsed from the value of its key when the key is there and its value
\* parses, and the default of the field otherwise.
C28_FieldParsedOrDefault ==
  params.op = "deserialize" =>
    /\ params.out.ok
    /\ \A f \in FieldNames :
         params.out.val[f] =
           IF f \in DOMAIN params.in /\ ParseU32(params.in[f]).ok
           THEN ParseU32(params.in[f]).val
           ELSE DefaultParams[f]

\* one key with a value that does not parse, another with one that does
C28_Witness ==
  /\ params.op = "deserialize"
  /\ \E f, g \in DOMAIN params.in \cap FieldNames :
       /\ ~ParseU32(params.in[f]).ok
       /\ params.out.val[f] = DefaultParams[f]
       /\ ParseU32(params.in[g]).ok
       /\ params.out.val[g] = [hi |-> Half - 1, lo |-> Half - 1]

\* C29: serializing p writes one entry for each of the 15 fields, under
\* the name of the field and with the decimal string of its value, and
\* deserializing what was written yields p.
C29_RoundTrip ==
  params.op = "roundtrip" =>
    /\ Len(params.wire.entries) = 15
    /\ \A f \in FieldNames :
         \E i \in 1..Len(params.wire.entries) :
           /\ params.wire.entries[i] = <<f, FormatU32(params.p[f])>>
           /\ \A j \in 1..Len(params.wire.entries) :
                params.wire.entries[j][1] = f => j = i
    /\ params.back.ok
    /\ params.back.val = params.p


\* C30: handle_autonomic_process handles every AutonomicProcess and returns
\* Ok(()), while the invocations of the Cell stay as they are.
C30_AutonomicReturns ==
  [][last'.op = "handle_autonomic_process" =>
       (last'.tag = "Ok" /\ inv' = inv /\ chain' = chain)]_vars


\* C31: an open of a path that is already registered holds the lock of the
\* registry in shared mode only; exclusive guards are those of first opens
\* and of remove.
C31_SharedForRegistered ==
  \A t \in Threads :
    /\ (registryLock[t].op = "new" /\ registryLock[t].registered) =>
         registryLock[t].mode = "read"
    /\ registryLock[t].mode = "write" =>
         \/ registryLock[t].op = "remove"
         \/ registryLock[t].op = "new" /\ ~registryLock[t].registered


\* how many times the entry x stands in the chain ch
Occurrences(ch, x) == Cardinality({p \in 1..Len(ch) : ch[p] = x})

\* C32: the bundle of an invocation holds entries of that invocation only;
\* the entries an invocation staged stand exactly once in the chain of its
\* environment when it is Committed, and in no chain before that or when
\* it is Aborted, in which case its bundle is empty.
C32_BundleConsumedOnce ==
  \A k \in InvIds :
    inv[k] # NoInv =>
      LET own == {NewEntry(k, n) : n \in 1..inv[k].staged} IN
      /\ \A p \in 1..Len(inv[k].bundle) : inv[k].bundle[p].inv = k
      /\ \A j \in InvIds \ {k} :
           \A p \in 1..Len(inv[j].bundle) : inv[j].bundle[p] \notin own
      /\ \A e \in ChainKeys, x \in own :
           Occurrences(chain[e], x) =
             IF inv[k].state = "Committed" /\ e = inv[k].env THEN 1 ELSE 0
      /\ inv[k].state = "Aborted" => inv[k].bundle = <<>>

\* one invocation has committed the entries it staged, another that staged
\* entries was aborted for a stale head
C32_Witness ==
  \E k, j \in InvIds :
    /\ inv[k].state = "Committed" /\ inv[k].staged > 0
    /\ inv[j].state = "Aborted" /\ inv[j].staged > 0
    /\ inv[j].err = "StaleHead"


\* C33: every invocation that has started ends as Committed or Aborted,
\* when the guest returns whenever it is not suspended, the steps of the
\* runner are taken and the timeout of a pending request expires.
C33_EveryInvocationEnds ==
  \A k \in InvIds :
    (inv[k].state = "Started") ~> (inv[k].state \in {"Committed", "Aborted"})

\* an invocation whose request timed out has ended
C33_Witness ==
  \E k \in InvIds :
    /\ inv[k].net = "timedout"
    /\ inv[k].state \in {"Committed", "Aborted"}


\* C34: when startup of a stopped CoolConductor returns, the new conductor
\* has installed the DNAs recorded by setup_app, each of them and in the
\* order in which they were recorded; the DNAs installed on a conductor
\* through setup_app are all recorded.
C34_DnasReinstalledInOrder ==
  [][\A c \in CoolSlots :
       /\ (last'.op = "startup" /\ last'.env = c /\ last'.tag = "Ok"
           /\ cool[c].handle = 0) =>
            /\ conds'[last'.val].installed = dnas[cool[c].dnas]
            /\ dnas' = dnas
       /\ (last'.op = "setup_app" /\ last'.env = c /\ last'.tag = "Ok") =>
            /\ dnas'[cool[c].dnas] =
                 Append(dnas[cool[c].dnas],
                        conds'[last'.val].installed[Len(conds'[last'.val].installed)])
            /\ conds'[last'.val].installed =
                 Append(conds[last'.val].installed,
                        dnas'[cool[c].dnas][Len(dnas'[cool[c].dnas])])]_vars

\* a conductor with two different DNAs installed through setup_app was shut
\* down and the conductor started in its place has both, in the same order
C34_Witness ==
  \E c \in CoolSlots, h \in CondIds :
    /\ last.op = "startup" /\ last.env = c /\ last.tag = "Ok"
    /\ cool[c].handle = last.val
    /\ h # last.val
    /\ conds[h].state = "down"
    /\ Len(conds[h].installed) = 2
    /\ conds[h].installed[1] # conds[h].installed[2]
    /\ conds[last.val].installed = conds[h].installed


\* C38: a CoolConductor value for which is_running() is true, and which so
\* hands out its handle, holds the handle of a conductor that has not been
\* shut down.
C38_RunningOnlyWhileUp ==
  \A c \in CoolSlots :
    (LiveCool(c) /\ IsRunningValue(cool[c])) =>
      conds[cool[c].handle].state = "running"


\* C35: no step of a connection that is running with_reader, the return of
\* the closure included, changes the rows on disk.
C35_ReaderLeavesStorage ==
  [][\A i \in Slots :
       (call[i].op = "with_reader" /\ last'.env = i) => disk' = disk]_vars


\* C36: every path in INITIALIZED_DBS has its directory on disk.
C36_RegisteredHasDirectory == INITIALIZED_DBS \subseteq dirs


\* C37: a call of DbConnection::new that returns Err, from create_dir or
\* from initialize_databases, leaves INITIALIZED_DBS as it was.
C37_ErrLeavesRegistry ==
  [][(last'.op = "new" /\ last'.tag = "Err") =>
       INITIALIZED_DBS' = INITIALIZED_DBS]_vars

\* new has just returned the error of initialize_databases
C37_Witness ==
  /\ last.op = "new"
  /\ last.tag = "Err"
  /\ last.val = "DatabaseError"
  /\ last.path \in INITIALIZED_DBS

====
